---- MODULE Spec2Model ----
(***************************************************************************)
(* A model of the documentation extractor src/python/docu.py: the loop of  *)
(* main() that reads a file line by line, keeps five flags and prints      *)
(* Markdown; and, further down, of the class Pargs of src/python/pargs.py. *)
(* Text is a sequence of one-character strings, and every                  *)
(* regular expression of the source is matched by a small backtracking     *)
(* matcher that follows Python's re module (greedy quantifiers, leftmost   *)
(* match, re.sub replacing every non-overlapping match).                   *)
(***************************************************************************)
EXTENDS Integers, Sequences, FiniteSets, TLC

(***************************************************************************)
(* Regular expressions.  A pattern is a sequence of atoms; an atom is a    *)
(* character class (set, or its complement when neg) repeated min..max     *)
(* times, max = -1 standing for "no upper limit".                          *)
(***************************************************************************)
Unbounded == -1

Atom(neg, set, min, max) == [neg |-> neg, set |-> set, min |-> min, max |-> max]

\* The characters Python's \s matches that a TLA+ string can hold.
WS == {" ", "\t", "\n", "\r", "\f"}

NL == {"\n"}

Lower == {"a", "b", "c", "d", "e", "f", "g", "h", "i", "j", "k", "l", "m",
          "n", "o", "p", "q", "r", "s", "t", "u", "v", "w", "x", "y", "z"}

Upper == {"A", "B", "C", "D", "E", "F", "G", "H", "I", "J", "K", "L", "M",
          "N", "O", "P", "Q", "R", "S", "T", "U", "V", "W", "X", "Y", "Z"}

Digit == {"0", "1", "2", "3", "4", "5", "6", "7", "8", "9"}

\* c            one literal character
Lit(c) == Atom(FALSE, {c}, 1, 1)

\* c*  c+  c?  c{lo,hi} for a literal character c
LitStar(c) == Atom(FALSE, {c}, 0, Unbounded)

LitPlus(c) == Atom(FALSE, {c}, 1, Unbounded)

LitOpt(c) == Atom(FALSE, {c}, 0, 1)

LitRep(c, lo, hi) == Atom(FALSE, {c}, lo, hi)

\* .*  and  .+   (the dot matches everything but a newline)
DotStar == Atom(TRUE, NL, 0, Unbounded)

DotPlus == Atom(TRUE, NL, 1, Unbounded)

\* three double quotes
Quotes == <<Lit("\""), Lit("\""), Lit("\"")>>

InClass(c, a) == (c \in a.set) # a.neg

\* The longest run of characters of atom a in s from position p, cut at a.max.
RECURSIVE RunLen(_, _, _, _)
RunLen(a, s, p, n) ==
    IF /\ p + n <= Len(s)
       /\ (a.max = Unbounded \/ n < a.max)
       /\ InClass(s[p + n], a)
    THEN RunLen(a, s, p, n + 1)
    ELSE n

(***************************************************************************)
(* MatchAt(atoms, k, s, p): atoms k.. of the pattern matched against s     *)
(* from position p.  The result is <<>> when there is no match, and        *)
(* otherwise the positions <<b_k, ..., b_last, e>>: atom j took            *)
(* s[b_j .. b_(j+1) - 1] and e is the position after the match.  Each atom *)
(* first takes as much as it can and gives back one character at a time    *)
(* (greedy backtracking), so the match found is the one Python finds.      *)
(***************************************************************************)
RECURSIVE MatchAt(_, _, _, _)
RECURSIVE TryLen(_, _, _, _, _)
MatchAt(atoms, k, s, p) ==
    IF k > Len(atoms)
    THEN <<p>>
    ELSE TryLen(atoms, k, s, p, RunLen(atoms[k], s, p, 0))

TryLen(atoms, k, s, p, n) ==
    IF n < atoms[k].min
    THEN <<>>
    ELSE LET rest == MatchAt(atoms, k + 1, s, p + n)
         IN  IF rest # <<>> THEN <<p>> \o rest
             ELSE TryLen(atoms, k, s, p, n - 1)

\* re.match(pattern, s): a match that starts at the first character.
ReMatch(atoms, s) == MatchAt(atoms, 1, s, 1) # <<>>

\* The text of atoms g1..g2 (the group) of a match b; g1 = 0: the empty text.
Group(s, b, g1, g2) ==
    IF g1 = 0 THEN <<>> ELSE SubSeq(s, b[g1], b[g2 + 1] - 1)

(***************************************************************************)
(* re.sub(pattern, repl, s) from position p on: every leftmost             *)
(* non-overlapping match is replaced, by the group g1..g2 of the match     *)
(* (repl = "\\1") or by nothing (g1 = 0, repl = "").  A pattern that       *)
(* begins with ^ (anchored) can only match at the first character.         *)
(***************************************************************************)
RECURSIVE SubFrom(_, _, _, _, _, _)
SubFrom(atoms, anchored, g1, g2, s, p) ==
    IF p > Len(s) THEN <<>>
    ELSE IF anchored /\ p > 1 THEN SubSeq(s, p, Len(s))
    ELSE LET b == MatchAt(atoms, 1, s, p)
         IN  IF b = <<>>
             THEN <<s[p]>> \o SubFrom(atoms, anchored, g1, g2, s, p + 1)
             ELSE IF b[Len(b)] = p
             THEN Group(s, b, g1, g2) \o <<s[p]>>
                      \o SubFrom(atoms, anchored, g1, g2, s, p + 1)
             ELSE Group(s, b, g1, g2)
                      \o SubFrom(atoms, anchored, g1, g2, s, b[Len(b)])

ReSub(atoms, anchored, g1, g2, s) == SubFrom(atoms, anchored, g1, g2, s, 1)

(***************************************************************************)
(* The patterns of main(), each named after the source line that uses it.  *)
(***************************************************************************)
Word(w) == [k \in 1..Len(w) |-> Lit(w[k])]

\* line 43: ^"""([^\s].+)
ReTitle == Quotes \o <<Atom(TRUE, WS, 1, 1), DotPlus>>

\* line 45: """ *            (replaced by nothing)
ReTitleMark == Quotes \o <<LitStar(" ")>>

\* line 50: .*20.+
ReYear == <<DotStar, Lit("2"), Lit("0"), DotPlus>>

\* line 53: ^"""
ReModuleEnd == Quotes

\* line 57: ^class.+
ReClass == Word(<<"c", "l", "a", "s", "s">>) \o <<DotPlus>>

\* line 59: ^class +([^:\s\n]+).*\n      (group: atom 7)
ReClassName ==
    Word(<<"c", "l", "a", "s", "s">>)
        \o <<LitPlus(" "), Atom(TRUE, {":"} \cup WS \cup NL, 1, Unbounded),
             DotStar, Lit("\n")>>

\* lines 60, 61, 70:  +"""(.+)"""      (group: atom 5)
ReInlineDoc == <<LitPlus(" ")>> \o Quotes \o <<DotPlus>> \o Quotes

\* line 62: ^     ?def       (four blanks, an optional fifth, def)
ReDef ==
    <<Lit(" "), Lit(" "), Lit(" "), Lit(" "), LitOpt(" ")>>
        \o Word(<<"d", "e", "f">>)

\* line 63: ^ +def +([^:\n]+).*\n        (group: atom 6)
ReDefName ==
    <<LitPlus(" ")>> \o Word(<<"d", "e", "f">>)
        \o <<LitPlus(" "), Atom(TRUE, {":"} \cup NL, 1, Unbounded),
             DotStar, Lit("\n")>>

\* line 65:  {7,9}"""
ReDocOpen == <<LitRep(" ", 7, 9)>> \o Quotes

\* line 69:  {7,9}"""(.+)"""
ReDocInline == <<LitRep(" ", 7, 9)>> \o Quotes \o <<DotPlus>> \o Quotes

\* line 73:  +Arguments:
ReArguments ==
    <<LitPlus(" ")>>
        \o Word(<<"A", "r", "g", "u", "m", "e", "n", "t", "s", ":">>)

\* line 75:  {9,12}[a-z]+
ReArg == <<LitRep(" ", 9, 12), Atom(FALSE, Lower, 1, Unbounded)>>

\* line 76: ^\s+([^\s]+) +- .+\n         (group: atom 2)
ReArgName ==
    <<Atom(FALSE, WS, 1, Unbounded), Atom(TRUE, WS, 1, Unbounded),
      LitPlus(" "), Lit("-"), Lit(" "), DotPlus, Lit("\n")>>

\* line 76: .+ - (.+)\n                  (group: atom 5)
ReArgText == <<DotPlus, Lit(" "), Lit("-"), Lit(" "), DotPlus, Lit("\n")>>

\* line 77: \s{9,13}[a-zA-Z0-9]+\s+-\+.+
ReArgAlt ==
    <<Atom(FALSE, WS, 9, 13),
      Atom(FALSE, Lower \cup Upper \cup Digit, 1, Unbounded),
      Atom(FALSE, WS, 1, Unbounded), Lit("-"), Lit("+"), DotPlus>>

\* line 78: .+ ([\s]+) .+                (group: atom 3)
ReArgAltName ==
    <<DotPlus, Lit(" "), Atom(FALSE, WS, 1, Unbounded), Lit(" "), DotPlus>>

\* line 78: .+ - (.+)                    (group: atom 5)
ReArgAltText == <<DotPlus, Lit(" "), Lit("-"), Lit(" "), DotPlus>>

\* line 79:  +""".*
ReDocEnd == <<LitPlus(" ")>> \o Quotes \o <<DotStar>>

\* line 83:  {7,9}           (replaced by nothing)
ReIndent == <<LitRep(" ", 7, 9)>>

\* line 84: \s*#' ?
ReLiterate ==
    <<Atom(FALSE, WS, 0, Unbounded), Lit("#"), Lit("'"), LitOpt(" ")>>

\* line 85: .*#' ?           (replaced by nothing)
ReLiterateMark == <<DotStar, Lit("#"), Lit("'"), LitOpt(" ")>>

(***************************************************************************)
(* The input.  Each line read from the file is one of these texts; all but *)
(* the last line of a file end with a newline.                             *)
(***************************************************************************)
\* """Ti\n: opens the module description (title)
LTitle ==
    <<"\"", "\"", "\"", "T", "i", "\n">>

\* Au\n: plain text
LText ==
    <<"A", "u", "\n">>

\* 2024\n: text with a year
LYear ==
    <<"2", "0", "2", "4", "\n">>

\* """\n: bare closing marker
LQuotes ==
    <<"\"", "\"", "\"", "\n">>

\* class A:\n: class heading
LClass ==
    <<"c", "l", "a", "s", "s", " ", "A", ":", "\n">>

\* class A(B):\n: class heading with a base list
LClassBase ==
    <<"c", "l", "a", "s", "s", " ", "A", "(", "B", ")", ":", "\n">>

\* classy\n: text that begins with the word class
LClassy ==
    <<"c", "l", "a", "s", "s", "y", "\n">>

\* class A:: class heading, last line of a file without final newline
LClassEof ==
    <<"c", "l", "a", "s", "s", " ", "A", ":">>

\*     """D."""\n: one-line class description
LClassDoc ==
    <<" ", " ", " ", " ", "\"", "\"", "\"", "D", ".", "\"", "\"", "\"", "\n">>

\*     def f(x):\n: method heading
LDef ==
    <<" ", " ", " ", " ", "d", "e", "f", " ", "f", "(", "x", ")", ":", "\n">>

\*     def f(x):: method heading, last line of a file without final newline
LDefEof ==
    <<" ", " ", " ", " ", "d", "e", "f", " ", "f", "(", "x", ")", ":">>

\*         """\n: docstring marker, 8 blanks
LDocOpen ==
    <<" ", " ", " ", " ", " ", " ", " ", " ", "\"", "\"", "\"", "\n">>

\*         """D."""\n: one-line method description
LDocInline ==
    <<" ", " ", " ", " ", " ", " ", " ", " ", "\"", "\"", "\"", "D", ".", "\"", "\"", "\"", "\n">>

\*         Arguments:\n: Arguments header
LArguments ==
    <<" ", " ", " ", " ", " ", " ", " ", " ", "A", "r", "g", "u", "m", "e", "n", "t", "s", ":", "\n">>

\*             x - v\n: argument, 12 blanks
LArg12 ==
    <<" ", " ", " ", " ", " ", " ", " ", " ", " ", " ", " ", " ", "x", " ", "-", " ", "v", "\n">>

\*          nm  - a v\n: argument, 9 blanks, two blanks before the dash
LArg9 ==
    <<" ", " ", " ", " ", " ", " ", " ", " ", " ", "n", "m", " ", " ", "-", " ", "a", " ", "v", "\n">>

\*     x - v\n: argument, 4 blanks
LArg4 ==
    <<" ", " ", " ", " ", "x", " ", "-", " ", "v", "\n">>

\*              x - v\n: argument, 13 blanks
LArg13 ==
    <<" ", " ", " ", " ", " ", " ", " ", " ", " ", " ", " ", " ", " ", "x", " ", "-", " ", "v", "\n">>

\*             x - a - v\n: argument whose description holds a dash
LArgDash ==
    <<" ", " ", " ", " ", " ", " ", " ", " ", " ", " ", " ", " ", "x", " ", "-", " ", "a", " ", "-", " ", "v", "\n">>

\*          N -+ v\n: argument in the -+ form
LArgAlt ==
    <<" ", " ", " ", " ", " ", " ", " ", " ", " ", "N", " ", "-", "+", " ", "v", "\n">>

\*         text\n: description text, 8 blanks
LDocText ==
    <<" ", " ", " ", " ", " ", " ", " ", " ", "t", "e", "x", "t", "\n">>

\* #' H\n: literate comment
LLiterate ==
    <<"#", "'", " ", "H", "\n">>

\*   #' a #' b\n: literate comment that holds the marker twice
LLiterate2 ==
    <<" ", " ", "#", "'", " ", "a", " ", "#", "'", " ", "b", "\n">>

Lines ==
    {LTitle,
     LText,
     LYear,
     LQuotes,
     LClass,
     LClassBase,
     LClassy,
     LClassEof,
     LClassDoc,
     LDef,
     LDefEof,
     LDocOpen,
     LDocInline,
     LArguments,
     LArg12,
     LArg9,
     LArg4,
     LArg13,
     LArgDash,
     LArgAlt,
     LDocText,
     LLiterate,
     LLiterate2}


\* The number of lines of the longest file read.
MaxLines == 7

EndsWithNewline(s) == Len(s) > 0 /\ s[Len(s)] = "\n"

\* The first position from p on that holds no blank (Len(s) + 1 if none).
RECURSIVE SkipBlanks(_, _)
SkipBlanks(s, p) ==
    IF p <= Len(s) /\ s[p] = " " THEN SkipBlanks(s, p + 1) ELSE p

\* The text w stands at position p of s.
HasAt(s, p, w) ==
    /\ p >= 1
    /\ p + Len(w) - 1 <= Len(s)
    /\ SubSeq(s, p, p + Len(w) - 1) = w

Marker == <<"#", "'">>

\* A literate-comment line: blanks, if any, and the marker #'.
IsLiterateComment(l) == HasAt(l, SkipBlanks(l, 1), Marker)

(***************************************************************************)
(* What each condition of the if/elif chain says about a line, and what    *)
(* each print statement writes for it.  Both depend on the line only.      *)
(***************************************************************************)
\* line 43: re.match('^"""([^\s].+)', line)
OpensModule(l) == ReMatch(ReTitle, l)

\* line 50: re.match(".*20.+", line)
LooksLikeYear(l) == ReMatch(ReYear, l)

\* line 53: re.match('^"""', line)
ClosesModule(l) == ReMatch(ReModuleEnd, l)

\* line 57: re.match("^class.+", line)
OpensClass(l) == ReMatch(ReClass, l)

\* line 60: re.match(' +""".+"""', line)
IsInlineDoc(l) == ReMatch(ReInlineDoc, l)

\* line 62: re.match('^     ?def', line)
OpensDef(l) == ReMatch(ReDef, l)

\* line 65: re.match(' {7,9}"""', line)
OpensDoc(l) == ReMatch(ReDocOpen, l)

\* line 69: re.match(' {7,9}"""(.+)"""', line)
IsInlineFuncDoc(l) == ReMatch(ReDocInline, l)

\* line 73: re.match(" +Arguments:", line)
IsArgumentsHeader(l) == ReMatch(ReArguments, l)

\* the least indentation of an argument one blank too large
IsArgumentFrom10(l) ==
    ReMatch(<<LitRep(" ", 10, 12), Atom(FALSE, Lower, 1, Unbounded)>>, l)

\* line 75: re.match(" {9,12}[a-z]+", line)
IsArgument(l) == ReMatch(ReArg, l)

\* line 77: re.match("\s{9,13}[a-zA-Z0-9]+\s+-\+.+", line)
IsArgumentAlt(l) == ReMatch(ReArgAlt, l)

\* line 79: re.match(' +""".*', line)
ClosesDoc(l) == ReMatch(ReDocEnd, l)

\* line 84: re.match("\s*#' ?", line)
IsLiterate(l) == ReMatch(ReLiterate, l)

\* line 45: print("---\ntitle: ", re.sub('""" *', '', line), end="")
TitleText(l) ==
    <<"-", "-", "-", "\n", "t", "i", "t", "l", "e", ":", " ">> \o <<" ">>
        \o ReSub(ReTitleMark, FALSE, 0, 0, l)

\* line 49: print("author: %s" % line, end="")
AuthorText(l) == <<"a", "u", "t", "h", "o", "r", ":", " ">> \o l

\* line 52: print("date: %s---\n" % line, end="")
DateText(l) == <<"d", "a", "t", "e", ":", " ">> \o l \o <<"-", "-", "-", "\n">>

\* the class name cut at the base list as well
ClassNameBare(l) ==
    ReSub(Word(<<"c", "l", "a", "s", "s">>)
              \o <<LitPlus(" "),
                   Atom(TRUE, {":", "("} \cup WS \cup NL, 1, Unbounded),
                   DotStar, Lit("\n")>>,
          TRUE, 7, 7, l)

\* line 59: re.sub("^class +([^:\s\n]+).*\n", "\1", line)
ClassName(l) == ReSub(ReClassName, TRUE, 7, 7, l)

\* line 59: print("\n**class %s**\n" % ...)
ClassText(l) ==
    <<"\n", "*", "*", "c", "l", "a", "s", "s", " ">> \o ClassName(l)
        \o <<"*", "*", "\n">> \o <<"\n">>

\* lines 61, 70: re.sub(' +"""(.+)"""', "\1", line)
InlineDoc(l) == ReSub(ReInlineDoc, FALSE, 5, 5, l)

\* line 61: print("%s" % ...)
ClassDocText(l) == InlineDoc(l) \o <<"\n">>

\* the method name cut at the parameter list as well
DefNameBare(l) ==
    ReSub(<<LitPlus(" ")>> \o Word(<<"d", "e", "f">>)
              \o <<LitPlus(" "), Atom(TRUE, {":", "("} \cup NL, 1, Unbounded),
                   DotStar, Lit("\n")>>,
          TRUE, 6, 6, l)

\* line 63: re.sub("^ +def +([^:\n]+).*\n", "\1", line)
DefName(l) == ReSub(ReDefName, TRUE, 6, 6, l)

\* line 63: print("\n**def %s**" % ...)
DefText(l) ==
    <<"\n", "*", "*", "d", "e", "f", " ">> \o DefName(l) \o <<"*", "*">> \o <<"\n">>

\* the module block closed by the fence the title opened
ModuleEndFence == <<"-", "-", "-", "\n">>

\* lines 53-54: closing the module block prints nothing
ModuleEndText == <<>>

\* line 68: print("")
DocOpenText == <<"\n">>

\* line 70: print("\n%s\n" % ...)
FuncDocText(l) == <<"\n">> \o InlineDoc(l) \o <<"\n">> \o <<"\n">>

\* line 74: print("> _Arguments:_\n\n>", end="")
ArgumentsText == <<">", " ", "_", "A", "r", "g", "u", "m", "e", "n", "t", "s", ":", "_", "\n", "\n", ">">>

\* print(" - _%s_: %s" % (name, text)) of lines 76 and 78
ArgItem(name, text) ==
    <<" ", "-", " ", "_">> \o name \o <<"_", ":", " ">> \o text \o <<"\n">>

\* line 76
ArgumentText(l) ==
    ArgItem(ReSub(ReArgName, TRUE, 2, 2, l), ReSub(ReArgText, FALSE, 5, 5, l))

\* line 78
ArgumentAltText(l) ==
    ArgItem(ReSub(ReArgAltName, FALSE, 3, 3, l),
            ReSub(ReArgAltText, FALSE, 5, 5, l))

\* line 83: print(re.sub(" {7,9}", "", line), end="")
DocLineText(l) == ReSub(ReIndent, FALSE, 0, 0, l)

\* only the marker at the beginning of the line stripped
StripLeadingMarker(l) == ReSub(ReLiterate, TRUE, 0, 0, l)

\* line 85: re.sub(".*#' ?", "", line)
StripMarker(l) == ReSub(ReLiterateMark, FALSE, 0, 0, l)

\* The outcome of every pattern of main() on every line of the input.
Table ==
    [l \in Lines |->
        [opensModule |-> OpensModule(l),
         year        |-> LooksLikeYear(l),
         closesModule |-> ClosesModule(l),
         opensClass  |-> OpensClass(l),
         inlineDoc   |-> IsInlineDoc(l),
         opensDef    |-> OpensDef(l),
         opensDoc    |-> OpensDoc(l),
         inlineFuncDoc |-> IsInlineFuncDoc(l),
         arguments   |-> IsArgumentsHeader(l),
         argument    |-> IsArgument(l),
         argumentAlt |-> IsArgumentAlt(l),
         closesDoc   |-> ClosesDoc(l),
         literate    |-> IsLiterate(l),
         text |->
            [title     |-> TitleText(l),
             author    |-> AuthorText(l),
             date      |-> DateText(l),
             moduleEnd |-> ModuleEndText,
             moduleText |-> l,
             class     |-> ClassText(l),
             classDoc  |-> ClassDocText(l),
             def       |-> DefText(l),
             docOpen   |-> DocOpenText,
             docInline |-> FuncDocText(l),
             arguments |-> ArgumentsText,
             argument  |-> ArgumentText(l),
             argumentAlt |-> ArgumentAltText(l),
             docEnd    |-> <<>>,
             docText   |-> DocLineText(l),
             literate  |-> StripMarker(l),
             none      |-> <<>>]]]

(***************************************************************************)
(* The state of main(): the flags of lines 35-40, the line just read, and  *)
(* what has been written to standard output.                               *)
(***************************************************************************)
VARIABLES
    argv,       \* the command line main() is called with
    exists,     \* os.path.exists of the file the command line names
    status,     \* "running", or how main() has left through exit()
    messages,   \* what lines 20-32 have printed: "usage", "help", "error"
    file,       \* "none" before line 34, "open" while the for loop of
                \* line 41 runs, then "closed"
    i,          \* the number of lines read
    module,     \* inside the module description
    yaml,       \* progress of the front matter, 0..3
    clss,       \* a class heading has been seen
    func,       \* a method heading has just been seen
    funcdoc,    \* inside a method description
    line,       \* the line read last (<<>> before the first)
    rule,       \* the branch of the if/elif chain that line took
    out,        \* the text printed for that line
    front,      \* the front-matter prints so far, in order
    opened,     \* one of the first five lines matched the pattern of line 43
    literate,   \* every line read so far is a literate-comment line
    input,      \* the lines read so far, while literate is true
    printed     \* all that the loop has printed so far, while literate is true

\* the state of a Pargs object (pargs.py), which main() does not use
VARIABLES
    self_argv,  \* self.argv, the list the caller handed over
    argi,       \* i of __init__
    argl,       \* l of __init__
    stage,      \* "init" inside __init__, then "ready"; "raised" after an
                \* exception; "none" when no parser is built
    call,       \* the last call of parse or check, with its arguments
    ret,        \* the value the last call returned
    declared,   \* the options the parse calls so far have asked for
    argv0       \* the list as the caller wrote it

docuVars ==
    <<argv, exists, status, messages, file, i, module, yaml, clss, func,
      funcdoc, line, rule, out, front, opened, literate, input, printed>>

pargsVars == <<self_argv, argi, argl, stage, call, ret, declared, argv0>>

vars == <<docuVars, pargsVars>>

\* Python's values, as far as parse and check return them: the name of the
\* type and the text of the value.
PyValue(t, x) == [type |-> t, text |-> x]

PyNone == PyValue("NoneType", <<>>)

PyBool(b) ==
    PyValue("bool", IF b THEN <<"T", "r", "u", "e">>
                         ELSE <<"F", "a", "l", "s", "e">>)

NoDecl == [type |-> "", ashort |-> <<>>, along |-> <<>>]

NoCall == [name |-> "none", decl |-> NoDecl, default |-> PyNone]

\* No Pargs object is built.
NoPargs ==
    /\ self_argv = <<>>
    /\ argi = 0
    /\ argl = 0
    /\ stage = "none"
    /\ call = NoCall
    /\ ret = PyNone
    /\ declared = {}
    /\ argv0 = <<>>

\* The command lines: none, a file, the help option.
Argvs ==
    {<<"docu.py">>,
     <<"docu.py", "-h">>,
     <<"docu.py", "in.py">>,
     <<"docu.py", "in.py", "--help">>}

Range(s) == {s[k] : k \in 1..Len(s)}

\* line 23
WantsHelp(a) == "-h" \in Range(a) \/ "--help" \in Range(a)

\* the check of line 30 left out
MissingNever == FALSE

\* line 30: not os.path.exists(filename)
Missing == ~exists

FrontRules == {"title", "author", "date"}

FuncDocRules ==
    {"arguments", "argument", "argumentAlt", "docEnd", "docText"}

Rules ==
    FrontRules \cup FuncDocRules
        \cup {"moduleEnd", "moduleText", "class", "classDoc", "def",
              "docOpen", "docInline", "literate", "none"}

\* the call main(sys.argv) of line 89
Init ==
    /\ argv \in Argvs
    /\ exists \in (IF Len(argv) > 1 THEN BOOLEAN ELSE {FALSE})
    /\ status = "running"
    /\ messages = <<>>
    /\ file = "none"
    /\ i = 0
    /\ module = FALSE
    /\ yaml = 0
    /\ clss = FALSE
    /\ func = FALSE
    /\ funcdoc = FALSE
    /\ line = <<>>
    /\ rule = "none"
    /\ out = <<>>
    /\ front = <<>>
    /\ opened = FALSE
    /\ literate = TRUE
    /\ input = <<>>
    /\ printed = <<>>
    /\ NoPargs

(***************************************************************************)
(* The conditions of the if/elif chain, for the line l read as line n.     *)
(***************************************************************************)
\* the window of the title one line too long
AtTitleLate(n, l) == n < 7 /\ Table[l].opensModule

\* line 43
AtTitle(n, l) == n < 6 /\ Table[l].opensModule

\* the window of the author line two lines too long
AtAuthorLate(n) == n < 7 /\ yaml = 1

\* the author line taken without a title before it
AtAuthorNoTitle(n) == n < 5 /\ yaml <= 1

\* line 47
AtAuthor(n) == n < 5 /\ yaml = 1

\* line 50
AtDate(n, l) == n < 5 /\ yaml = 2 /\ Table[l].year

\* line 53
AtModuleEnd(l) == module /\ Table[l].closesModule

\* line 55
AtModuleText == module

\* line 57
AtClass(l) == Table[l].opensClass

\* line 60
AtClassDoc(l) == clss /\ Table[l].inlineDoc

\* a method heading taken outside a class as well
AtDefAnywhere(l) == Table[l].opensDef

\* line 62
AtDef(l) == clss /\ Table[l].opensDef

\* line 65
AtDocOpen(l) == func /\ Table[l].opensDoc

\* line 69
AtDocInline(l) == func /\ Table[l].inlineFuncDoc

\* line 72
AtFuncDoc == funcdoc

\* line 84
AtLiterate(l) == Table[l].literate

\* lines 73-83: the chain inside the funcdoc branch
FuncDocRule(l) ==
    IF Table[l].arguments THEN "arguments"
    ELSE IF Table[l].argument THEN "argument"
    ELSE IF Table[l].argumentAlt THEN "argumentAlt"
    ELSE IF funcdoc /\ Table[l].closesDoc THEN "docEnd"
    ELSE IF funcdoc THEN "docText"
    ELSE "none"

\* lines 43-85: the first condition that holds decides
Rule(n, l) ==
    IF AtTitle(n, l) THEN "title"
    ELSE IF AtAuthor(n) THEN "author"
    ELSE IF AtDate(n, l) THEN "date"
    ELSE IF AtModuleEnd(l) THEN "moduleEnd"
    ELSE IF AtModuleText THEN "moduleText"
    ELSE IF AtClass(l) THEN "class"
    ELSE IF AtClassDoc(l) THEN "classDoc"
    ELSE IF AtDef(l) THEN "def"
    ELSE IF AtDocOpen(l) THEN "docOpen"
    ELSE IF AtDocInline(l) THEN "docInline"
    ELSE IF AtFuncDoc THEN FuncDocRule(l)
    ELSE IF AtLiterate(l) THEN "literate"
    ELSE "none"

\* what lines 20-34 leave alone
Untouched ==
    /\ UNCHANGED <<argv, exists, i, module, yaml, clss, func, funcdoc, line,
                   rule, out, front, opened, literate, input, printed>>
    /\ UNCHANGED pargsVars

\* lines 20-21 and 26-28: no argument
Usage ==
    /\ file = "none" /\ status = "running"
    /\ Len(argv) = 1
    /\ messages' = <<"usage", "usage">>
    /\ status' = "exit(0)"
    /\ UNCHANGED file
    /\ Untouched

\* lines 23-25
Help ==
    /\ file = "none" /\ status = "running"
    /\ Len(argv) # 1 /\ WantsHelp(argv)
    /\ messages' = <<"help">>
    /\ status' = "exit(0)"
    /\ UNCHANGED file
    /\ Untouched

\* lines 29-32
NotFound ==
    /\ file = "none" /\ status = "running"
    /\ Len(argv) # 1 /\ ~WantsHelp(argv)
    /\ Missing
    /\ messages' = <<"error">>
    /\ status' = "exit(1)"
    /\ UNCHANGED file
    /\ Untouched

\* lines 29-40
Open ==
    /\ file = "none" /\ status = "running"
    /\ Len(argv) # 1 /\ ~WantsHelp(argv)
    /\ ~Missing
    /\ file' = "open"
    /\ UNCHANGED <<status, messages>>
    /\ Untouched

(***************************************************************************)
(* Lines 41-42 and the print of the branch taken: the loop hands out the   *)
(* next line l, counts it, and the line takes branch r.  A line without a  *)
(* final newline is the last line of its file.                             *)
(***************************************************************************)
Read(l, r) ==
    /\ file = "open"
    /\ i < MaxLines
    /\ i = 0 \/ EndsWithNewline(line)
    /\ Rule(i + 1, l) = r
    /\ i' = i + 1
    /\ line' = l
    /\ rule' = r
    /\ out' = Table[l].text[r]
    /\ front' = IF r \in FrontRules THEN Append(front, r) ELSE front
    /\ opened' = (opened \/ (i + 1 < 6 /\ Table[l].opensModule))
    /\ literate' = (literate /\ IsLiterateComment(l))
    /\ input' = IF literate' THEN Append(input, l) ELSE <<>>
    /\ printed' = IF literate' THEN printed \o out' ELSE <<>>
    /\ UNCHANGED <<argv, exists, status, messages, file>>
    /\ UNCHANGED pargsVars

\* lines 43-46
Title(l) ==
    /\ Read(l, "title")
    /\ yaml' = 1
    /\ module' = TRUE
    /\ UNCHANGED <<clss, func, funcdoc>>

\* lines 47-49
Author(l) ==
    /\ Read(l, "author")
    /\ yaml' = yaml + 1
    /\ UNCHANGED <<module, clss, func, funcdoc>>

\* lines 50-52
Date(l) ==
    /\ Read(l, "date")
    /\ yaml' = yaml + 1
    /\ UNCHANGED <<module, clss, func, funcdoc>>

\* lines 53-54
ModuleEnd(l) ==
    /\ Read(l, "moduleEnd")
    /\ module' = FALSE
    /\ UNCHANGED <<yaml, clss, func, funcdoc>>

\* lines 55-56
ModuleText(l) ==
    /\ Read(l, "moduleText")
    /\ UNCHANGED <<module, yaml, clss, func, funcdoc>>

\* lines 57-59
Class(l) ==
    /\ Read(l, "class")
    /\ clss' = TRUE
    /\ UNCHANGED <<module, yaml, func, funcdoc>>

\* lines 60-61
ClassDoc(l) ==
    /\ Read(l, "classDoc")
    /\ UNCHANGED <<module, yaml, clss, func, funcdoc>>

\* lines 62-64
Def(l) ==
    /\ Read(l, "def")
    /\ func' = TRUE
    /\ UNCHANGED <<module, yaml, clss, funcdoc>>

\* lines 65-71: the docstring after a method heading.  Every line the
\* pattern of line 69 matches is matched by the pattern of line 65 first.
DocString(l) ==
    \E r \in {"docOpen", "docInline"} :
        /\ Read(l, r)
        /\ funcdoc' = IF r = "docOpen" THEN TRUE ELSE funcdoc
        /\ func' = FALSE
        /\ UNCHANGED <<module, yaml, clss>>

\* lines 72-74
Arguments(l) ==
    /\ Read(l, "arguments")
    /\ UNCHANGED <<module, yaml, clss, func, funcdoc>>

\* lines 75-76
Argument(l) ==
    /\ Read(l, "argument")
    /\ UNCHANGED <<module, yaml, clss, func, funcdoc>>

\* lines 77-78
ArgumentAlt(l) ==
    /\ Read(l, "argumentAlt")
    /\ UNCHANGED <<module, yaml, clss, func, funcdoc>>

\* lines 79-81
DocEnd(l) ==
    /\ Read(l, "docEnd")
    /\ funcdoc' = FALSE
    /\ func' = FALSE
    /\ UNCHANGED <<module, yaml, clss>>

\* lines 82-83
DocText(l) ==
    /\ Read(l, "docText")
    /\ UNCHANGED <<module, yaml, clss, func, funcdoc>>

\* lines 84-85
Literate(l) ==
    /\ Read(l, "literate")
    /\ UNCHANGED <<module, yaml, clss, func, funcdoc>>

\* no condition of the chain holds: the line is dropped
Skip(l) ==
    /\ Read(l, "none")
    /\ UNCHANGED <<module, yaml, clss, func, funcdoc>>

\* line 86: the end of the file
Close ==
    /\ file = "open"
    /\ file' = "closed"
    /\ UNCHANGED <<argv, exists, status, messages, i, module, yaml, clss,
                   func, funcdoc, line, rule, out, front, opened, literate,
                   input, printed>>
    /\ UNCHANGED pargsVars

Next ==
    \/ Usage
    \/ Help
    \/ NotFound
    \/ Open
    \/ \E l \in Lines : Title(l)
    \/ \E l \in Lines : Author(l)
    \/ \E l \in Lines : Date(l)
    \/ \E l \in Lines : ModuleEnd(l)
    \/ \E l \in Lines : ModuleText(l)
    \/ \E l \in Lines : Class(l)
    \/ \E l \in Lines : ClassDoc(l)
    \/ \E l \in Lines : Def(l)
    \/ \E l \in Lines : DocString(l)
    \/ \E l \in Lines : Arguments(l)
    \/ \E l \in Lines : Argument(l)
    \/ \E l \in Lines : ArgumentAlt(l)
    \/ \E l \in Lines : DocEnd(l)
    \/ \E l \in Lines : DocText(l)
    \/ \E l \in Lines : Literate(l)
    \/ \E l \in Lines : Skip(l)
    \/ Close

Spec == Init /\ [][Next]_vars

TypeOK ==
    /\ argv \in Argvs
    /\ exists \in BOOLEAN
    /\ status \in {"running", "exit(0)", "exit(1)"}
    /\ file \in {"none", "open", "closed"}
    /\ i \in 0..MaxLines
    /\ module \in BOOLEAN
    /\ yaml \in 0..3
    /\ clss \in BOOLEAN
    /\ func \in BOOLEAN
    /\ funcdoc \in BOOLEAN
    /\ line \in Lines \cup {<<>>}
    /\ rule \in Rules
    /\ opened \in BOOLEAN

(***************************************************************************)
(* The claims about the extractor.                                         *)
(***************************************************************************)

\* C1: in every reachable state of a run, module (inModuleBlock) and
\* funcdoc (inFunctionDescription) are never both true.
C1_ModuleAndFuncdocExclusive == ~(module /\ funcdoc)

\* C2: yaml (frontMatterStage) never decreases: no line sets it to a value
\* smaller than the one it has.
C2_YamlNeverDecreases == [][yaml' >= yaml]_vars

\* C3: in the output of every run, an author line is printed only after a
\* title line has been printed, and a date line only after an author line.
C3_AuthorAfterTitleDateAfterAuthor ==
    \A k \in 1..Len(front) :
        /\ front[k] = "author" => \E j \in 1..(k - 1) : front[j] = "title"
        /\ front[k] = "date" => \E j \in 1..(k - 1) : front[j] = "author"

C3_Witness == front = <<"title", "author", "date">> /\ rule = "date"

\* C4: when none of the first five lines opens a module description, the
\* front-matter rules never fire: no title, author or date line (and so no
\* fence) is printed, and yaml stays 0 for the whole run.
C4_NoMarkerNoFrontMatter ==
    ~opened => (yaml = 0 /\ front = <<>> /\ rule \notin FrontRules)

C4_Witness == ~opened /\ i >= 6 /\ line = LTitle /\ file = "closed"

\* C5: no line at position 6 or later changes yaml or prints a front-matter
\* line, even when its text matches the module-opening marker or a year.
C5_NoFrontMatterAfterWindow ==
    [][(i' = i + 1 /\ i' >= 6)
          => (yaml' = yaml /\ front' = front /\ rule' \notin FrontRules)]_vars

C5_Witness ==
    /\ i >= 6
    /\ line \in {LTitle, LYear}
    /\ Table[line].opensModule \/ Table[line].year
    /\ yaml \in {1, 2}

(***************************************************************************)
(* Text helpers of the claims below: they read a line the way the claims   *)
(* describe it, by a plain scan and without the patterns of main().        *)
(***************************************************************************)
\* The first position from p on that holds a character of stop.
RECURSIVE FindStop(_, _, _)
FindStop(s, p, stop) ==
    IF p <= Len(s) /\ s[p] \notin stop THEN FindStop(s, p + 1, stop) ELSE p

\* The first position from p on that holds a character outside keep.
RECURSIVE FindOther(_, _, _)
FindOther(s, p, keep) ==
    IF p <= Len(s) /\ s[p] \in keep THEN FindOther(s, p + 1, keep) ELSE p

Occurrences(s, w) == {p \in 1..Len(s) : HasAt(s, p, w)}

\* The lines of a text that are not empty, without their newlines.
RECURSIVE NonEmptyLines(_)
NonEmptyLines(s) ==
    IF s = <<>> THEN <<>>
    ELSE LET e == FindStop(s, 1, NL)
             rest == NonEmptyLines(SubSeq(s, e + 1, Len(s)))
         IN  IF e = 1 THEN rest ELSE <<SubSeq(s, 1, e - 1)>> \o rest

IdentChars == Lower \cup Upper \cup Digit \cup {"_"}

KwClass == <<"c", "l", "a", "s", "s">>

KwDef == <<"d", "e", "f">>

\* The position after the keyword kw (behind any indentation) and the
\* blanks that follow it; 0 when the line has no such beginning.
AfterKeyword(l, kw) ==
    LET k == SkipBlanks(l, 1)
        a == k + Len(kw)
    IN  IF HasAt(l, k, kw) /\ a <= Len(l) /\ l[a] = " "
        THEN SkipBlanks(l, a)
        ELSE 0

\* The bare identifier of a heading line: the letters, digits and
\* underscores that follow the keyword.
HeadingIdentifier(l, kw) ==
    LET a == AfterKeyword(l, kw)
    IN  IF a = 0 THEN <<>>
        ELSE SubSeq(l, a, FindOther(l, a, IdentChars) - 1)

\* The text that follows the keyword up to the first character of stop.
HeadingUpTo(l, kw, stop) ==
    LET a == AfterKeyword(l, kw)
    IN  IF a = 0 THEN <<>> ELSE SubSeq(l, a, FindStop(l, a, stop) - 1)

\* A heading as the amended claims C6 and C7 need it: the keyword, one or
\* more blanks, at least one character outside stop, and a final newline.
IsHeading(l, kw, stop) ==
    /\ AfterKeyword(l, kw) # 0
    /\ HeadingUpTo(l, kw, stop) # <<>>
    /\ EndsWithNewline(l)

MdClass(x) == <<"*", "*", "c", "l", "a", "s", "s", " ">> \o x \o <<"*", "*">>

MdDef(x) == <<"*", "*", "d", "e", "f", " ">> \o x \o <<"*", "*">>

C8_DefOutsideClassSilent ==
    [][(i' = i + 1 /\ ~clss /\ Table[line'].opensDef)
          => (out' = <<>> /\ ~func')]_vars

\* C8 as amended: a function-heading line processed while clss is false
\* and module is false, and not taken as the author or date line of the
\* front matter, prints nothing, and func stays false.
C8_DefOutsideClassAndModuleSilent ==
    [][(/\ i' = i + 1
        /\ ~clss
        /\ ~module
        /\ rule' \notin FrontRules
        /\ Table[line'].opensDef)
          => (out' = <<>> /\ ~func' /\ rule' = "none")]_vars

C8_Witness ==
    /\ ~clss
    /\ ~module
    /\ yaml = 3
    /\ line = LDef
    /\ rule = "none"
    /\ out = <<>>

Dash == <<" ", "-", " ">>

\* An argument line: indentation, a name without white space, blanks, a
\* dash, a blank, a description, a newline.
ArgNameStart(l) == SkipBlanks(l, 1)

ArgNameEnd(l) == FindStop(l, ArgNameStart(l), WS)

ArgDescStart(l) == SkipBlanks(l, ArgNameEnd(l)) + 2

IsArgLine(l) ==
    /\ ArgNameStart(l) > 1
    /\ ArgNameEnd(l) > ArgNameStart(l)
    /\ HasAt(l, ArgDescStart(l) - 3, Dash)
    /\ ArgDescStart(l) < Len(l)
    /\ EndsWithNewline(l)

ArgName(l) == SubSeq(l, ArgNameStart(l), ArgNameEnd(l) - 1)

ArgDesc(l) == SubSeq(l, ArgDescStart(l), Len(l) - 1)

MdArg(name, desc) ==
    <<" ", "-", " ", "_">> \o name \o <<"_", ":", " ">> \o desc \o <<"\n">>

C10_StripIdempotent ==
    rule = "literate"
        => (/\ out = StripMarker(line)
            /\ Occurrences(out, Marker) = {}
            /\ StripMarker(out) = out)

C10_Witness ==
    /\ rule = "literate"
    /\ line = LLiterate2
    /\ out = <<"b", "\n">>

TripleQuote == <<"\"", "\"", "\"">>

\* A one-line description at the indentation of a method's docstring: eight
\* blanks, """, a text, """ and the newline.
IsOneLineDoc(l) ==
    /\ SkipBlanks(l, 1) = 9
    /\ HasAt(l, 9, TripleQuote)
    /\ Len(l) >= 16
    /\ HasAt(l, Len(l) - 3, TripleQuote)
    /\ EndsWithNewline(l)

\* The text between the quotes of a one-line description.
DocBody(l) == SubSeq(l, 12, Len(l) - 4)

\* C16: when func is true and the line read is a one-line description
\* ("""text""" at the indentation of the docstring), the text of the
\* description is printed and func is false afterwards, so that a later """
\* line of the body opens no description block.  It is stated here for the
\* runs in which no module block was opened, which keeps the front matter
\* and the module text (C1, C2) out of the way.
C16_InlineDocEndsSignature ==
    [][(/\ i' = i + 1
        /\ func
        /\ ~opened
        /\ IsOneLineDoc(line'))
          => (/\ NonEmptyLines(out') = <<DocBody(line')>>
              /\ ~func')]_vars

\* A line that holds the closing marker only.
IsBareMarker(l) == l = TripleQuote \/ l = TripleQuote \o <<"\n">>

\* C17: whenever a bare closing marker (""" at the start of the line) is read
\* while module is true, module is false after that line and nothing is
\* printed for it: at every line, the lines next to the title included.
C17_BareMarkerClosesModule ==
    [][(/\ i' = i + 1
        /\ module
        /\ IsBareMarker(line'))
          => (/\ ~module'
              /\ out' = <<>>)]_vars

Fence == <<"-", "-", "-", "\n">>

\* The text ends with a fence that stands on a line of its own.
EndsWithFenceLine(s) ==
    /\ HasAt(s, Len(s) - 3, Fence)
    /\ Len(s) = 4 \/ s[Len(s) - 4] = "\n"

KwDate == <<"d", "a", "t", "e", ":", " ">>

\* C18: the closing fence is printed with the date line and with nothing
\* else: the branch of the date prints "date: ", the line and the fence; the
\* branch of the title prints the opening fence first; the branches of the
\* author and of the end of the module block print no fence, the latter
\* nothing at all.  A run that prints a title and no date has therefore
\* printed the opening fence and no closing one.
C18_ClosingFenceWithDateOnly ==
    /\ rule = "date" => out = KwDate \o line \o Fence
    /\ rule = "title" => HasAt(out, 1, Fence) /\ ~EndsWithFenceLine(out)
    /\ rule = "author" => ~EndsWithFenceLine(out)
    /\ rule = "moduleEnd" => out = <<>>
    /\ Len(SelectSeq(front, LAMBDA r : r = "date")) = 0
         => (rule \in FrontRules \cup {"moduleEnd"}
               => ~EndsWithFenceLine(out))

\* a whole run with a title and an author and no date, its module block
\* closed
C18_Witness ==
    /\ file = "closed"
    /\ front = <<"title", "author">>
    /\ rule = "moduleEnd"
    /\ ~module

\* How often the front-matter print r has happened.
Times(r) == Len(SelectSeq(front, LAMBDA x : x = r))

\* C19: at most one front-matter record per run: the opening fence with its
\* title is printed at most once, and so are the author and the date.
C19_OneFrontMatterRecord ==
    /\ Times("title") <= 1
    /\ Times("author") <= 1
    /\ Times("date") <= 1

\* The command line names a file and asks for no help.
NamesFile == Len(argv) > 1 /\ ~WantsHelp(argv)

\* C12: when the file the command line names does not exist, the run prints
\* one error message and nothing else, leaves with a status other than 0,
\* reads no line (the loop takes no step) and prints no Markdown.
C12_MissingInputReportedOnce ==
    (NamesFile /\ ~exists)
        => (/\ file = "none"
            /\ i = 0
            /\ rule = "none"
            /\ out = <<>>
            /\ printed = <<>>
            /\ front = <<>>
            /\ status # "exit(0)"
            /\ status = "running" => messages = <<>> /\ ENABLED NotFound
            /\ status = "exit(1)" => messages = <<"error">>)

C12_Witness ==
    /\ NamesFile
    /\ ~exists
    /\ status = "exit(1)"
    /\ messages = <<"error">>
    /\ i = 0

\* The text of a literate-comment line: what follows the marker and the
\* blank behind it, if there is one.
LiterateText(l) ==
    LET a == SkipBlanks(l, 1) + Len(Marker)
        b == IF a <= Len(l) /\ l[a] = " " THEN a + 1 ELSE a
    IN  SubSeq(l, b, Len(l))

RECURSIVE LiterateTexts(_)
LiterateTexts(ls) ==
    IF ls = <<>> THEN <<>>
    ELSE LiterateText(Head(ls)) \o LiterateTexts(Tail(ls))

\* C11: for every input that holds literate-comment lines only, the output
\* is the texts of these lines with the marker stripped, one for each line
\* and in the order of the input, and no front matter is printed.
C11_LiterateOnlyOutput ==
    literate
        => (/\ Len(input) = i
            /\ printed = LiterateTexts(input)
            /\ front = <<>>)

(***************************************************************************)
(* The argument parser src/python/pargs.py: the class Pargs.  An argument  *)
(* is a text as above.  The list self.argv is a sequence; the element the  *)
(* code finds at index k stands at position k + 1 of the sequence.  The    *)
(* type checks of lines 130-133 pass: doc is a string and argv a list.     *)
(***************************************************************************)
\* \w
WordChars == Lower \cup Upper \cup Digit \cup {"_"}

\* line 141: =
ReEquals == <<Lit("=")>>

\* line 142: .+=             (replaced by nothing)
ReUpToEquals == <<DotPlus, Lit("=")>>

\* line 143: =.+             (replaced by nothing)
ReFromEquals == <<Lit("="), DotPlus>>

\* line 216: [0-9]+$
ReInt == <<Atom(FALSE, Digit, 1, Unbounded)>>

\* line 225: [\.0-9]+$
ReFloat == <<Atom(FALSE, Digit \cup {"."}, 1, Unbounded)>>

\* line 258: --?\w
ReOption == <<Lit("-"), LitOpt("-"), Atom(FALSE, WordChars, 1, 1)>>

\* re.search(pattern, s): a match that starts anywhere.
ReSearch(atoms, s) == \E p \in 1..Len(s) : MatchAt(atoms, 1, s, p) # <<>>

\* re.match of a pattern made of one repeated class and $: the class runs
\* to the end of the text, or to the newline that ends it.
ReMatchToEnd(atoms, s) ==
    LET b == MatchAt(atoms, 1, s, 1)
    IN  /\ b # <<>>
        /\ \/ b[Len(b)] = Len(s) + 1
           \/ b[Len(b)] = Len(s) /\ s[Len(s)] = "\n"

\* xs[k], xs.insert(k, x), xs.pop(k) and xs.index(x) of a Python list
At(xs, k) == xs[k + 1]

Insert(xs, k, x) == SubSeq(xs, 1, k) \o <<x>> \o SubSeq(xs, k + 1, Len(xs))

Pop(xs, k) == SubSeq(xs, 1, k) \o SubSeq(xs, k + 2, Len(xs))

Index(xs, x) ==
    CHOOSE k \in 0..(Len(xs) - 1) :
        /\ xs[k + 1] = x
        /\ \A j \in 0..(k - 1) : xs[j + 1] # x

\* int(s) of a text of digits: the number without its leading zeros
RECURSIVE StripZeros(_)
StripZeros(s) ==
    IF Len(s) > 1 /\ s[1] = "0" THEN StripZeros(Tail(s)) ELSE s

IntOf(s) == PyValue("int", StripZeros(s))

\* float(s) of a text of digits and dots: a number when the text holds a
\* digit and one dot at most, a ValueError otherwise
IsFloatText(s) ==
    /\ Cardinality({p \in 1..Len(s) : s[p] = "."}) <= 1
    /\ \E p \in 1..Len(s) : s[p] \in Digit

RECURSIVE StripZerosBehind(_)
StripZerosBehind(s) ==
    IF Len(s) > 1 /\ s[Len(s)] = "0"
    THEN StripZerosBehind(SubSeq(s, 1, Len(s) - 1))
    ELSE s

FloatOf(s) ==
    LET d == FindStop(s, 1, {"."})
        whole == SubSeq(s, 1, d - 1)
        part == SubSeq(s, d + 1, Len(s))
    IN  PyValue("float",
                StripZeros(IF whole = <<>> THEN <<"0">> ELSE whole)
                    \o <<".">>
                    \o StripZerosBehind(IF part = <<>> THEN <<"0">> ELSE part))

(***************************************************************************)
(* The command lines handed to the parser: the name of the program and up  *)
(* to MaxArgs arguments.                                                   *)
(***************************************************************************)
App == <<"a", "p", "p">>

Args ==
    {<<"-", "v">>,                      \* -v       a flag
     <<"-", "i">>,                      \* -i       an option with a number
     <<"-", "f">>,                      \* -f       an option with a float
     <<"-", "-", "o", "u", "t">>,       \* --out    an option with a text
     <<"5">>,                           \* 5        a number
     <<".">>,                           \* .        a dot
     <<"x">>,                           \* x        a text
     <<"-", "i", "=", "0", "5">>,       \* -i=05    key=val
     <<"a", "=">>,                      \* a=       no value
     <<"a", "=", "b", "=", "c">>,       \* a=b=c    a value with =
     <<"=">>,                           \* =        neither key nor value
     <<"=", "x">>}                      \* =x       no key

\* The number of arguments of the longest command line.
MaxArgs == 2

\* The longest list the loop of __init__ is followed to.
MaxArgvLen == 6

ArgLists ==
    {<<App>> \o xs : xs \in UNION {[1..n -> Args] : n \in 0..MaxArgs}}

\* The options the program asks for, as the example of lines 64-73 does,
\* and one of type string.
Decl(t, s, l) == [type |-> t, ashort |-> s, along |-> l]

Decls ==
    {Decl("bool", <<"-", "v">>, <<"-", "-", "v", "e", "r", "b", "o", "s", "e">>),
     Decl("int", <<"-", "i">>, <<"-", "-", "i", "n", "t">>),
     Decl("float", <<"-", "f">>, <<"-", "-", "f", "l", "t">>),
     Decl("string", <<"-", "o">>, <<"-", "-", "o", "u", "t">>)}

Defaults == {PyNone, PyValue("int", <<"1", "0">>)}

(***************************************************************************)
(* __init__: the loop of lines 136-147 that writes key=val as key, val.    *)
(***************************************************************************)
\* line 143: key = re.sub("=.+", "", argv[i])
KeyOf(a) == ReSub(ReFromEquals, FALSE, 0, 0, a)

\* line 142: val = re.sub(".+=", "", argv[i])
ValOf(a) == ReSub(ReUpToEquals, FALSE, 0, 0, a)

\* line 141
HasEquals(a) == ReSearch(ReEquals, a)

\* lines 142-145 for argv[k]
KeyVal(xs, k) ==
    [Insert(xs, k + 1, ValOf(At(xs, k))) EXCEPT ![k + 1] = KeyOf(At(xs, k))]

\* main() is not running.
NoDocu ==
    /\ argv = <<"docu.py">>
    /\ exists = FALSE
    /\ status = "running"
    /\ messages = <<>>
    /\ file = "none"
    /\ i = 0
    /\ module = FALSE
    /\ yaml = 0
    /\ clss = FALSE
    /\ func = FALSE
    /\ funcdoc = FALSE
    /\ line = <<>>
    /\ rule = "none"
    /\ out = <<>>
    /\ front = <<>>
    /\ opened = FALSE
    /\ literate = TRUE
    /\ input = <<>>
    /\ printed = <<>>

\* lines 134-137: the call Pargs(doc, argv)
InitPargs ==
    /\ NoDocu
    /\ argv0 \in ArgLists
    /\ self_argv = argv0
    /\ argi = 0
    /\ argl = Len(argv0)
    /\ stage = "init"
    /\ call = NoCall
    /\ ret = PyNone
    /\ declared = {}

\* lines 138-141: an argument without =
KeepArg ==
    /\ stage = "init"
    /\ argi < argl - 1
    /\ ~HasEquals(At(self_argv, argi + 1))
    /\ argi' = argi + 1
    /\ UNCHANGED <<self_argv, argl, stage, call, ret, declared, argv0>>
    /\ UNCHANGED docuVars

\* lines 138-146: an argument with =
SplitArg ==
    /\ stage = "init"
    /\ argi < argl - 1
    /\ HasEquals(At(self_argv, argi + 1))
    /\ Len(self_argv) < MaxArgvLen
    /\ argi' = argi + 1
    /\ self_argv' = KeyVal(self_argv, argi + 1)
    /\ argl' = argl + 1
    /\ UNCHANGED <<stage, call, ret, declared, argv0>>
    /\ UNCHANGED docuVars

\* lines 138 and 147: the end of the loop
Construct ==
    /\ stage = "init"
    /\ ~(argi < argl - 1)
    /\ stage' = "ready"
    /\ UNCHANGED <<self_argv, argi, argl, call, ret, declared, argv0>>
    /\ UNCHANGED docuVars

(***************************************************************************)
(* parse(type, ashort, along, default), one action for each branch of the  *)
(* chain of lines 200-248, and check().  Every option is asked for once.   *)
(***************************************************************************)
\* lines 195-199
Idx(d) ==
    IF d.ashort \in Range(self_argv) THEN Index(self_argv, d.ashort)
    ELSE IF d.along \in Range(self_argv) THEN Index(self_argv, d.along)
    ELSE -1

\* the call and what no branch touches
Parse(d, default) ==
    /\ stage = "ready"
    /\ d \notin declared
    /\ declared' = declared \cup {d}
    /\ call' = [name |-> "parse", decl |-> d, default |-> default]
    /\ UNCHANGED <<argi, argl, argv0>>
    /\ UNCHANGED docuVars

\* lines 200-202
ParseFlag(d, default) ==
    /\ Parse(d, default)
    /\ Idx(d) > -1 /\ d.type = "bool"
    /\ self_argv' = Pop(self_argv, Idx(d))
    /\ ret' = PyBool(TRUE)
    /\ UNCHANGED stage

\* lines 203-204
ParseNoFlag(d, default) ==
    /\ Parse(d, default)
    /\ Idx(d) = -1 /\ d.type = "bool"
    /\ ret' = PyBool(FALSE)
    /\ UNCHANGED <<self_argv, stage>>

\* lines 205-236.  The conditions of lines 206 and 210 never hold: idx is
\* an index of the list, so len(self.argv) > idx.  float() raises a
\* ValueError, after the value was popped, for a text that is no number.
ParseNumber(d, default) ==
    /\ Parse(d, default)
    /\ Idx(d) > -1 /\ d.type \in {"int", "float"}
    /\ LET k == Idx(d)
           v == At(self_argv, k + 1)
       IN  IF Len(self_argv) > k + 1
           THEN IF d.type = "int"
                THEN IF ReMatchToEnd(ReInt, v)
                     THEN /\ self_argv' = Pop(Pop(self_argv, k + 1), k)
                          /\ ret' = IntOf(v)
                          /\ UNCHANGED stage
                     ELSE /\ ret' = PyNone
                          /\ UNCHANGED <<self_argv, stage>>
                ELSE IF ReMatchToEnd(ReFloat, v)
                     THEN IF IsFloatText(v)
                          THEN /\ self_argv' = Pop(Pop(self_argv, k + 1), k)
                               /\ ret' = FloatOf(v)
                               /\ UNCHANGED stage
                          ELSE /\ self_argv' = Pop(self_argv, k + 1)
                               /\ stage' = "raised"
                               /\ UNCHANGED ret
                     ELSE /\ ret' = PyNone
                          /\ UNCHANGED <<self_argv, stage>>
           ELSE /\ ret' = PyNone
                /\ UNCHANGED <<self_argv, stage>>

\* lines 238-246.  The conditions of lines 239 and 243 never hold, and
\* self.argv[idx+1] raises an IndexError when the option is the last
\* element.
ParseString(d, default) ==
    /\ Parse(d, default)
    /\ Idx(d) > -1 /\ d.type = "string"
    /\ IF Len(self_argv) > Idx(d) + 1
       THEN /\ ret' = PyValue("str", At(self_argv, Idx(d) + 1))
            /\ UNCHANGED stage
       ELSE /\ stage' = "raised"
            /\ UNCHANGED ret
    /\ UNCHANGED self_argv

\* lines 247-248
ParseDefault(d, default) ==
    /\ Parse(d, default)
    /\ Idx(d) = -1 /\ d.type # "bool"
    /\ ret' = default
    /\ UNCHANGED <<self_argv, stage>>

\* line 259: filter(rhy.match, self.argv)
WrongArgs == {k \in 1..Len(self_argv) : ReMatch(ReOption, self_argv[k])}

\* lines 250-266
Check ==
    /\ stage = "ready"
    /\ call' = [name |-> "check", decl |-> NoDecl, default |-> PyNone]
    /\ ret' = PyBool(WrongArgs = {})
    /\ UNCHANGED <<self_argv, argi, argl, stage, declared, argv0>>
    /\ UNCHANGED docuVars

NextPargs ==
    \/ KeepArg
    \/ SplitArg
    \/ Construct
    \/ \E d \in Decls, default \in Defaults : ParseFlag(d, default)
    \/ \E d \in Decls, default \in Defaults : ParseNoFlag(d, default)
    \/ \E d \in Decls, default \in Defaults : ParseNumber(d, default)
    \/ \E d \in Decls, default \in Defaults : ParseString(d, default)
    \/ \E d \in Decls, default \in Defaults : ParseDefault(d, default)
    \/ Check

SpecPargs == InitPargs /\ [][NextPargs]_vars

TypeOKPargs ==
    /\ stage \in {"init", "ready", "raised"}
    /\ argi \in 0..MaxArgvLen
    /\ stage = "init" => argl = Len(self_argv)
    /\ Len(self_argv) <= MaxArgvLen
    /\ declared \subseteq Decls
    /\ call.name \in {"none", "parse", "check"}

\* lines 136-147 as a whole: the list the loop leaves, from index k on (the
\* list as it stands when it has grown to MaxArgvLen and would grow on).
RECURSIVE Loop(_, _)
Loop(xs, k) ==
    IF ~(k < Len(xs) - 1) THEN xs
    ELSE IF ~HasEquals(At(xs, k + 1)) THEN Loop(xs, k + 1)
    ELSE IF Len(xs) < MaxArgvLen THEN Loop(KeyVal(xs, k + 1), k + 1)
    ELSE xs

(***************************************************************************)
(* The claims about the argument parser.                                   *)
(***************************************************************************)
\* The parser is built and no method was called yet.
Constructed == stage = "ready" /\ call = NoCall

\* the text before and behind the first = of an argument
EqualsAt(a) == FindStop(a, 1, {"="})

KeyText(a) == SubSeq(a, 1, EqualsAt(a) - 1)

ValText(a) == SubSeq(a, EqualsAt(a) + 1, Len(a))

\* key=val with a key and a value
IsKeyValText(a) == EqualsAt(a) <= Len(a) /\ KeyText(a) # <<>> /\ ValText(a) # <<>>

\* the list with key and val as two elements in the place of xs[p]
AsTwoElements(xs, p) ==
    SubSeq(xs, 1, p - 1) \o <<KeyText(xs[p]), ValText(xs[p])>>
        \o SubSeq(xs, p + 1, Len(xs))

\* C15: key=val is the same as key val: a parser built from a list that
\* holds an argument key=val has the list of a parser built from the list
\* with the two elements key, val in that place.
C15_KeyValAsTwoElements ==
    Constructed
        => \A p \in 2..Len(argv0) :
               IsKeyValText(argv0[p])
                   => self_argv = Loop(AsTwoElements(argv0, p), 0)

\* The part of the list the loop of __init__ has still to visit.
Rest == SubSeq(self_argv, argi + 2, Len(self_argv))

\* C20: the loop of __init__ comes to its end for every list of texts.
\* What the loop does from an iteration on depends on the part of the list
\* it has still to visit and on nothing else, so a loop that ends never
\* finds this part after an iteration as it was before it.
C20_LoopNeverBackWhereItWas ==
    [][(stage = "init" /\ argi' = argi + 1) => Rest' # Rest]_vars

\* C14: parse returns the default it was given, and leaves the list as it
\* is, whenever neither the short nor the long name is in the list: for
\* every type and every default.
C14_AbsentOptionReturnsDefault ==
    [][(/\ call'.name = "parse"
        /\ declared' # declared
        /\ call'.decl.ashort \notin Range(self_argv)
        /\ call'.decl.along \notin Range(self_argv))
          => (/\ ret' = call'.default
              /\ self_argv' = self_argv)]_vars

\* An argument that reads as an option: - or --, and a letter, a digit or _.
IsOptionText(a) ==
    /\ Len(a) >= 2
    /\ a[1] = "-"
    /\ \/ a[2] \in WordChars
       \/ Len(a) >= 3 /\ a[2] = "-" /\ a[3] \in WordChars

\* A value as the type asks for it.
IsValueText(t, a) ==
    IF t = "int" THEN a # <<>> /\ Range(a) \subseteq Digit
    ELSE IF t = "float"
    THEN Range(a) \subseteq Digit \cup {"."} /\ IsFloatText(a)
    ELSE ~IsOptionText(a)

\* the parse calls so far that name the argument a
DeclaredAs(a) == {d \in declared : a \in {d.ashort, d.along}}

\* In the list xs every option a parse call has asked for is there once
\* and, unless it is a flag, is followed by a value of its type.
UsedWell(xs) ==
    \A p \in 2..Len(xs) : \A d \in DeclaredAs(xs[p]) :
        /\ \A q \in 2..Len(xs) : xs[q] \in {d.ashort, d.along} => q = p
        /\ d.type # "bool"
             => p < Len(xs) /\ IsValueText(d.type, xs[p + 1])

\* the positions of xs that hold an option no parse call has asked for
Undeclared(xs) ==
    {p \in 2..Len(xs) : IsOptionText(xs[p]) /\ DeclaredAs(xs[p]) = {}}

\* C13: in the order the module documents (the constructor, the parse
\* calls, check), with every option there once and followed by a value of
\* its type where it needs one: check returns True when every option of the
\* list was asked for by a parse call, and returns False only when the list
\* still holds an option that no parse call has asked for.
C13_CheckAcceptsDeclaredOptions ==
    (call.name = "check" /\ UsedWell(Loop(argv0, 0)))
        => (/\ Undeclared(Loop(argv0, 0)) = {} => ret = PyBool(TRUE)
            /\ ret = PyBool(FALSE) => Undeclared(self_argv) # {})

====
